---- MODULE Spec2Model ----
(***************************************************************************)
(* buaa-daily-checkin: a Cloudflare worker that keeps one UserInfo record  *)
(* per Telegram conversation in a KV namespace, mutates it through bot     *)
(* commands (fetch) and checks users in from a periodic sweep              *)
(* (do_scheduled).  Model of src/src/index.ts.                             *)
(*                                                                         *)
(* An invocation (one webhook call or one cron run) is a process whose     *)
(* position is kept in inv[i].pc; it moves from one KV operation to the    *)
(* next.  Calls to the portal, the geocoder and Telegram touch no shared   *)
(* state and are folded into the step of the KV operation that follows or  *)
(* precedes them; their answers are chosen nondeterministically.           *)
(***************************************************************************)
EXTENDS Integers, Sequences, FiniteSets, TLC

VARIABLES kv, now, inv, started

vars == <<kv, now, inv, started>>

----------------------------------------------------------------------------
(* Bounds of the model *)

\* /skip is not offered once the stored skip count has reached MaxSkip
MaxSkip == 2

\* conversations that talk to the bot
Chats == {1, 2}

\* invocation slots: Spec runs one invocation at a time (slot 1 only),
\* SpecConc runs up to two at a time
Slots == {1, 2}

\* clock readings (minutes since midnight, UTC) of the modelled afternoon:
\* 17:19, 17:20 and 17:30 in UTC+8; the clock only moves forward through them
Times == {559, 560, 570}

\* SpecHist and SpecConc start at most MaxStarted invocations
MaxStarted == 2

----------------------------------------------------------------------------
(* Program constants *)

TzOffset == 8
HoursPerDay == 24
MinutesPerHour == 60
Window == 10
DefaultHh == 17
DefaultMm == 30

\* checkin_hh, checkin_mm: the io-ts literal unions
checkin_hh == {16, 17, 18, 19}
checkin_mm == {0, 30}

----------------------------------------------------------------------------
(* Stored values *)

\* what kv.get yields for a missing key (null)
NoRecord == [absent |-> TRUE]

\* the location written by /login
DefaultLocation == [longitude |-> 116343699, latitude |-> 39977847]

\* the record written by a successful "/login <username> <password>"
LoginRecord(chat, username, password) ==
    [ username  |-> username,
      password  |-> password,
      chat_id   |-> chat,
      hh        |-> DefaultHh,
      mm        |-> DefaultMm,
      skip      |-> 0,
      province  |-> "Beijing",
      city      |-> "Beijing",
      area      |-> <<"Beijing", "Haidian">>,
      address   |-> "BUAA Dayuncun",
      in_campus |-> TRUE,
      location  |-> DefaultLocation ]

UserInfoFields ==
    { "username", "password", "chat_id", "hh", "mm", "skip", "area", "city",
      "province", "address", "location", "in_campus" }

\* UserInfo.decode: the stored value has every field of the schema and the
\* schedule is one of the literals
IsUserInfo(value) ==
    /\ UserInfoFields \subseteq DOMAIN value
    /\ value.hh \in checkin_hh
    /\ value.mm \in checkin_mm

----------------------------------------------------------------------------
(* Inbound text.  A text is a sequence of tokens cut so that every prefix  *)
(* the dispatcher tests for, and every separator it splits at, is a whole  *)
(* number of tokens: "/checkin_at 17:30" is                                *)
(* <<"/checkin", "_at", " ", "17", ":", "30">>.                            *)

\* String.prototype.startsWith
StartsWith(text, prefix) ==
    /\ Len(prefix) <= Len(text)
    /\ SubSeq(text, 1, Len(prefix)) = prefix

RECURSIVE SplitAcc(_, _, _)
SplitAcc(s, sep, cur) ==
    IF s = <<>> THEN <<cur>>
    ELSE IF Head(s) = sep THEN <<cur>> \o SplitAcc(Tail(s), sep, <<>>)
    ELSE SplitAcc(Tail(s), sep, Append(cur, Head(s)))

\* String.prototype.split: the pieces of s between the occurrences of sep
Split(s, sep) == SplitAcc(s, sep, <<>>)

NaN == [nan |-> TRUE, n |-> 0]
Num(n) == [nan |-> FALSE, n |-> n]

\* unary plus on a string: the empty string is 0, a decimal numeral is its
\* value, anything else is NaN
ToNumber(piece) ==
    IF piece = <<>> THEN Num(0)
    ELSE IF Len(piece) # 1 THEN NaN
    ELSE CASE piece[1] = "0"  -> Num(0)
           [] piece[1] = "00" -> Num(0)
           [] piece[1] = "15" -> Num(15)
           [] piece[1] = "16" -> Num(16)
           [] piece[1] = "17" -> Num(17)
           [] piece[1] = "18" -> Num(18)
           [] piece[1] = "19" -> Num(19)
           [] piece[1] = "20" -> Num(20)
           [] piece[1] = "30" -> Num(30)
           [] OTHER -> NaN

\* a decode that accepts every number
DecodesAsNumber(v, literals) == ~v.nan

\* t.literal union decode: Right iff the value is one of the literals
DecodesAs(v, literals) == ~v.nan /\ v.n \in literals

----------------------------------------------------------------------------
(* Answers of the external services *)

\* what the portal's login endpoint may answer: a body that decodes as
\* BuaaResp {e, m} or not, with the error code e 0 (no error), 1 or another
\* one, and a set-cookie header or none
LoginResponses ==
    { [wellformed |-> FALSE, e |-> 0, cookie |-> TRUE],
      [wellformed |-> TRUE,  e |-> 0, cookie |-> TRUE],
      [wellformed |-> TRUE,  e |-> 1, cookie |-> TRUE],
      [wellformed |-> TRUE,  e |-> 2, cookie |-> TRUE],
      [wellformed |-> TRUE,  e |-> 0, cookie |-> FALSE] }

\* login(): the LoginError it throws, or "" when it returns the cookies
LoginError(resp) ==
    IF ~resp.wellformed THEN "Invalid Login Response"
    ELSE IF resp.e = 1 THEN "Login Failed"
    ELSE IF ~resp.cookie THEN "set-cookie not found"
    ELSE ""

\* what the portal's check-in endpoint may answer
SubmitResponses == { "ok", "not_json", "bad_shape" }

\* a GaodeResp city is a string or an array of strings
Str(s) == [isString |-> TRUE, val |-> s]
Arr == [isString |-> FALSE, val |-> ""]

\* what the geocoder may answer to an inbound location
GaodeResponses ==
    { [valid |-> FALSE, province |-> "", city |-> Arr, district |-> "",
       formatted_address |-> ""],
      [valid |-> TRUE, province |-> "Hebei", city |-> Str("Langfang"),
       district |-> "Anci", formatted_address |-> "Langfang Anci"],
      [valid |-> TRUE, province |-> "Shanghai", city |-> Arr,
       district |-> "Pudong", formatted_address |-> "Shanghai Pudong"] }

\* the coordinates a user may send
MsgLocation == [longitude |-> 121500000, latitude |-> 31200000]

----------------------------------------------------------------------------
(* Invocations *)

NoText == <<>>

\* a Telegram update: a chat id and a text, a location, or neither
TextUpdate(chat, text) ==
    [chat |-> chat, hasText |-> TRUE, text |-> text, hasLocation |-> FALSE]
LocationUpdate(chat) ==
    [chat |-> chat, hasText |-> FALSE, text |-> NoText, hasLocation |-> TRUE]
NoUpdate ==
    [chat |-> 0, hasText |-> FALSE, text |-> NoText, hasLocation |-> FALSE]

\* an empty invocation slot
Idle ==
    [ kind |-> "idle", upd |-> NoUpdate, pc |-> "idle", info |-> NoRecord,
      keys |-> <<>>, users |-> <<>>, cur |-> 0, log |-> <<>>, resp |-> "",
      pre |-> [c \in Chats |-> NoRecord] ]

\* a fresh invocation of fetch ("fetch") or scheduled ("cron"); pre is the
\* store as the invocation found it
New(kind, upd) ==
    [ kind |-> kind, upd |-> upd, pc |-> "start", info |-> NoRecord,
      keys |-> <<>>, users |-> <<>>, cur |-> 0, log |-> <<>>, resp |-> "",
      pre |-> kv ]

Running(v) == v.pc \notin {"idle", "done"}

\* how invocations are admitted: at most lim of them run at a time, and
\* with budget at most MaxStarted are started in all
OneAtATime == [lim |-> 1, budget |-> FALSE]
WithHistory == [lim |-> 1, budget |-> TRUE]
Interleaved == [lim |-> 2, budget |-> TRUE]

\* an invocation begins in the free slot i
Begin(i, M) ==
    /\ inv[i].pc = "idle"
    /\ Cardinality({j \in Slots : Running(inv[j])}) < M.lim
    /\ M.budget => started < MaxStarted
    /\ started' = IF M.budget THEN started + 1 ELSE started

\* one entry of an invocation's log: a Telegram message sent, a portal
\* login, a check-in form submitted
Msg(chat, what, info) == [ev |-> "msg", chat |-> chat, what |-> what, info |-> info]
LoginCall(info, resp) ==
    [ev |-> "login", chat |-> info.chat_id,
     what |-> IF LoginError(resp) = "" THEN "ok" ELSE "LoginError", info |-> info,
     resp |-> resp]
SubmitCall(info, answer) == [ev |-> "submit", chat |-> info.chat_id, what |-> answer, info |-> info]

\* the invocation ends with the given response, having logged events
Done(v, resp, events) ==
    [v EXCEPT !.pc = "done", !.resp = resp, !.log = @ \o events,
              !.info = NoRecord, !.keys = <<>>, !.users = <<>>]

\* the handler returns normally
Return(v, events) ==
    Done(v, IF v.kind = "cron" THEN "ok" ELSE "Success", events)

\* the catch blocks of fetch; scheduled has none and the run ends in a fault
Throw(v, err, events) ==
    IF v.kind = "cron" THEN Done(v, "fault", events)
    ELSE IF err \in {"WrongCommandError", "LoginError", "WrongCheckinTime", "UserNotFound"}
         THEN Done(v, "end with error", events \o <<Msg(v.upd.chat, err, NoRecord)>>)
    ELSE IF err \in {"NotTelegramUpdateError", "InvalidUserInfo", "SyntaxError"}
         THEN Done(v, "end with error", events)
    ELSE Done(v, "fault", events)

\* a read that does not validate the stored value
InfoOfErrorUnvalidated(id) ==
    IF kv[id] = NoRecord THEN "UserNotFound" ELSE ""

\* info_of: the error it throws, or "" when it returns kv[id]
InfoOfError(id) ==
    IF kv[id] = NoRecord THEN "UserNotFound"
    ELSE IF ~IsUserInfo(kv[id]) THEN "InvalidUserInfo"
    ELSE ""

----------------------------------------------------------------------------
(* The record updates of the handlers *)

\* the schedule update with the minute left as it was
SetScheduleHourOnly(info, hh, mm) == [info EXCEPT !.hh = hh]

\* /checkin_at: info.hh = hh.right; info.mm = mm.right
SetSchedule(info, hh, mm) == [info EXCEPT !.hh = hh, !.mm = mm]

\* the skip day added twice
AddSkipTwice(info) == [info EXCEPT !.skip = @ + 2]

\* /skip: info.skip += 1
AddSkip(info) == [info EXCEPT !.skip = @ + 1]

\* the decrement without its guard
CancelSkipUnguarded(info) == [info EXCEPT !.skip = @ - 1]

\* /no_skip: if (info.skip > 0) info.skip -= 1
CancelSkip(info) == IF info.skip > 0 THEN [info EXCEPT !.skip = @ - 1] ELSE info

\* /in_campus, /out_of_campus: info.in_campus = flag
SetInCampus(info, flag) == [info EXCEPT !.in_campus = flag]

\* the city taken from the answer as it is
SetLocationCityAsGiven(info, g, loc) ==
    [info EXCEPT !.city = g.city.val, !.province = g.province,
                 !.area = <<g.city.val, g.district>>,
                 !.address = g.formatted_address, !.location = loc]

\* the skip days reset along with the place
SetLocationResettingSkip(info, g, loc) ==
    [info EXCEPT !.city = g.province, !.province = g.province,
                 !.area = <<g.province, g.district>>,
                 !.address = g.formatted_address, !.location = loc, !.skip = 0]

\* inbound location: city, province, area, address and location are
\* overwritten from the geocoder's answer g and the coordinates sent
SetLocation(info, g, loc) ==
    LET province == g.province
        city     == IF g.city.isString THEN g.city.val ELSE province
        area     == <<city, g.district>>
    IN  [info EXCEPT !.city = city, !.province = province, !.area = area,
                     !.address = g.formatted_address, !.location = loc]

\* two skip days taken at once
ConsumeSkipTwice(info) == [info EXCEPT !.skip = @ - 2]

\* do_scheduled: info.skip -= 1
ConsumeSkip(info) == [info EXCEPT !.skip = @ - 1]

\* do_scheduled: hh * 60 + mm of the clock reading utc (minutes since
\* midnight UTC), with hh = (getUTCHours() + 8) % 24
CurrentMinutes(utc) ==
    ((utc \div MinutesPerHour + TzOffset) % HoursPerDay) * MinutesPerHour
        + (utc % MinutesPerHour)

Abs(x) == IF x < 0 THEN -x ELSE x

\* the window test with the boundary minute left out
MatchesExclusive(info, current_minutes) ==
    ~(Abs((info.hh * MinutesPerHour + info.mm) - current_minutes) >= Window)

\* do_scheduled: the record is not passed over by
\* "if (Math.abs(expected_minutes - current_minutes) > 10) continue"
Matches(info, current_minutes) ==
    ~(Abs((info.hh * MinutesPerHour + info.mm) - current_minutes) > Window)

\* do_scheduled: a matching record with skip days left takes the skip branch
TakesSkip(info) == info.skip > 0

----------------------------------------------------------------------------
(* Dispatch *)

\* the chain of startsWith tests of fetch, first match wins
Intent(text) ==
    IF StartsWith(text, <<"/start">>) THEN "/start"
    ELSE IF StartsWith(text, <<"/login", " ">>) THEN "/login"
    ELSE IF StartsWith(text, <<"/checkin", "_at", " ">>) THEN "/checkin_at"
    ELSE IF StartsWith(text, <<"/info">>) THEN "/info"
    ELSE IF StartsWith(text, <<"/skip">>) THEN "/skip"
    ELSE IF StartsWith(text, <<"/no_skip">>) THEN "/no_skip"
    ELSE IF StartsWith(text, <<"/checkin">>) THEN "/checkin"
    ELSE IF StartsWith(text, <<"/delete">>) THEN "/delete"
    ELSE IF StartsWith(text, <<"/in_campus">>) THEN "/in_campus"
    ELSE IF StartsWith(text, <<"/out_of_campus">>) THEN "/out_of_campus"
    ELSE IF StartsWith(text, <<"/schedule">>) THEN "/schedule"
    ELSE "unknown"

\* check_with_user(env, id), the last call of most handlers: the stored
\* record is sent to its chat_id, or info_of throws
CheckWithUser(v, id) ==
    IF InfoOfError(id) # "" THEN Throw(v, InfoOfError(id), <<>>)
    ELSE Return(v, <<Msg(kv[id].chat_id, "record", kv[id])>>)

\* a read that makes up a record for a sender who has none
ReadModifyOrCreate(v, changed) ==
    IF InfoOfError(v.upd.chat) = "UserNotFound"
    THEN [v EXCEPT !.pc = "put", !.info = LoginRecord(v.upd.chat, <<>>, <<>>)]
    ELSE IF InfoOfError(v.upd.chat) # "" THEN Throw(v, InfoOfError(v.upd.chat), <<>>)
    ELSE [v EXCEPT !.pc = "put", !.info = changed]

\* a handler that reads the sender's record, changes it and goes on to
\* write it back: the step up to the read
ReadModify(v, changed) ==
    IF InfoOfError(v.upd.chat) # "" THEN Throw(v, InfoOfError(v.upd.chat), <<>>)
    ELSE [v EXCEPT !.pc = "put", !.info = changed]

\* a check-in that sends the form whatever the login answered
CheckinWithoutSession(info, lresp, sresp) ==
    [thrown |-> IF LoginError(lresp) # "" THEN "LoginError" ELSE "",
     events |-> <<LoginCall(info, lresp), SubmitCall(info, sresp)>>]

\* checkin(env, info) with the portal answering lresp to the login and sresp
\* to the form: what it throws ("" when it returns) and what it did
Checkin(info, lresp, sresp) ==
    IF LoginError(lresp) # ""
    THEN [thrown |-> "LoginError", events |-> <<LoginCall(info, lresp)>>]
    ELSE IF sresp = "ok"
    THEN [thrown |-> "",
          events |-> <<LoginCall(info, lresp), SubmitCall(info, sresp),
                       Msg(info.chat_id, "checkin result", NoRecord)>>]
    ELSE IF sresp = "not_json"
    THEN [thrown |-> "",
          events |-> <<LoginCall(info, lresp), SubmitCall(info, sresp),
                       Msg(info.chat_id, "checkin failed: resp is not JSON", NoRecord)>>]
    ELSE [thrown |-> "Error",
          events |-> <<LoginCall(info, lresp), SubmitCall(info, sresp)>>]

RECURSIVE SortedSeq(_)
SortedSeq(S) ==
    IF S = {} THEN <<>>
    ELSE LET m == CHOOSE x \in S : \A y \in S : x <= y
         IN  <<m>> \o SortedSeq(S \ {m})

\* env.kv.list({prefix: "user:"}): the ids of the stored keys, in key order
ListKeys == SortedSeq({c \in Chats : kv[c] # NoRecord})

----------------------------------------------------------------------------
(* fetch: the first step of each intent, up to its first KV operation *)

Set(i, v) == inv' = [inv EXCEPT ![i] = v]

\* "/start": the help text
Start(i, M, c, text) ==
    /\ Begin(i, M)
    /\ Intent(text) = "/start"
    /\ Set(i, Return(New("fetch", TextUpdate(c, text)), <<Msg(c, "help", NoRecord)>>))
    /\ UNCHANGED <<kv, now>>

\* the record put before the portal has answered
StoreAfterLoginUnchecked(c, rec, err) == [kv EXCEPT ![c] = rec]

\* the skip days of an existing record carried over into the new one
StoreAfterLoginKeepingSkip(c, rec, err) ==
    IF err # "" THEN kv
    ELSE IF kv[c] = NoRecord THEN [kv EXCEPT ![c] = rec]
    ELSE [kv EXCEPT ![c] = [rec EXCEPT !.skip = kv[c].skip]]

\* "/login": the store after login() has thrown err or, with err = "", has
\* returned and rec has been put
StoreAfterLogin(c, rec, err) ==
    IF err # "" THEN kv ELSE [kv EXCEPT ![c] = rec]

\* "/login <username> <password>": authenticate, then put the default record
Login(i, M, c, text) ==
    /\ Begin(i, M)
    /\ Intent(text) = "/login"
    /\ LET v    == New("fetch", TextUpdate(c, text))
           args == Split(text, " ")
       IN  IF Len(args) # 3
           THEN /\ Set(i, Throw(v, "WrongCommandError", <<>>))
                /\ UNCHANGED kv
           ELSE \E resp \in LoginResponses :
                  LET rec == LoginRecord(c, args[2], args[3])
                  IN  /\ kv' = StoreAfterLogin(c, rec, LoginError(resp))
                      /\ IF LoginError(resp) # ""
                         THEN Set(i, Throw(v, "LoginError", <<LoginCall(rec, resp)>>))
                         ELSE Set(i, [v EXCEPT !.pc = "echo", !.log = <<LoginCall(rec, resp)>>])
    /\ UNCHANGED now

\* "/checkin_at <HH:MM>": validate the time, then read the record
CheckinAt(i, M, c, text) ==
    /\ Begin(i, M)
    /\ Intent(text) = "/checkin_at"
    /\ LET v    == New("fetch", TextUpdate(c, text))
           args == Split(text, " ")
       IN  IF Len(args) # 2 THEN Set(i, Throw(v, "WrongCommandError", <<>>))
           ELSE LET parts == Split(args[2], ":")
                IN  IF Len(parts) # 2 THEN Set(i, Throw(v, "WrongCheckinTime", <<>>))
                    ELSE LET hh == ToNumber(parts[1])
                             mm == ToNumber(parts[2])
                         IN  IF ~DecodesAs(hh, checkin_hh) \/ ~DecodesAs(mm, checkin_mm)
                             THEN Set(i, Throw(v, "WrongCheckinTime", <<>>))
                             ELSE Set(i, ReadModify(v, SetSchedule(kv[c], hh.n, mm.n)))
    /\ UNCHANGED <<kv, now>>

\* "/info": the current time, then the record
Info(i, M, c, text) ==
    /\ Begin(i, M)
    /\ Intent(text) = "/info"
    /\ LET v == New("fetch", TextUpdate(c, text))
       IN  Set(i, CheckWithUser([v EXCEPT !.log = <<Msg(c, "time", NoRecord)>>], c))
    /\ UNCHANGED <<kv, now>>

\* "/skip"
Skip(i, M, c, text) ==
    /\ Begin(i, M)
    /\ Intent(text) = "/skip"
    /\ kv[c] # NoRecord => kv[c].skip < MaxSkip
    /\ Set(i, ReadModify(New("fetch", TextUpdate(c, text)), AddSkip(kv[c])))
    /\ UNCHANGED <<kv, now>>

\* "/no_skip"
NoSkip(i, M, c, text) ==
    /\ Begin(i, M)
    /\ Intent(text) = "/no_skip"
    /\ Set(i, ReadModify(New("fetch", TextUpdate(c, text)), CancelSkip(kv[c])))
    /\ UNCHANGED <<kv, now>>

\* "/checkin": read the record; the check-in is the next step
CheckinCmd(i, M, c, text) ==
    /\ Begin(i, M)
    /\ Intent(text) = "/checkin"
    /\ LET v == New("fetch", TextUpdate(c, text))
       IN  IF InfoOfError(c) # "" THEN Set(i, Throw(v, InfoOfError(c), <<>>))
           ELSE Set(i, [v EXCEPT !.pc = "checkin", !.info = kv[c]])
    /\ UNCHANGED <<kv, now>>

\* a "/delete" that goes to its reply with the key left in place
DeleteKeepsKey(i, M, c, text) ==
    /\ Begin(i, M)
    /\ Intent(text) = "/delete"
    /\ Set(i, [New("fetch", TextUpdate(c, text)) EXCEPT !.pc = "echo"])
    /\ UNCHANGED <<kv, now>>

\* "/delete": delete the key; the reply is the next step
Delete(i, M, c, text) ==
    /\ Begin(i, M)
    /\ Intent(text) = "/delete"
    /\ kv' = [kv EXCEPT ![c] = NoRecord]
    /\ Set(i, [New("fetch", TextUpdate(c, text)) EXCEPT !.pc = "echo"])
    /\ UNCHANGED now

\* "/in_campus"
InCampus(i, M, c, text) ==
    /\ Begin(i, M)
    /\ Intent(text) = "/in_campus"
    /\ Set(i, ReadModify(New("fetch", TextUpdate(c, text)), SetInCampus(kv[c], TRUE)))
    /\ UNCHANGED <<kv, now>>

\* "/out_of_campus"
OutOfCampus(i, M, c, text) ==
    /\ Begin(i, M)
    /\ Intent(text) = "/out_of_campus"
    /\ Set(i, ReadModify(New("fetch", TextUpdate(c, text)), SetInCampus(kv[c], FALSE)))
    /\ UNCHANGED <<kv, now>>

\* any other text
Unknown(i, M, c, text) ==
    /\ Begin(i, M)
    /\ Intent(text) = "unknown"
    /\ Set(i, Throw(New("fetch", TextUpdate(c, text)), "WrongCommandError", <<>>))
    /\ UNCHANGED <<kv, now>>

\* the geocoder was asked and answered g
GeocodeCall(c, g) == [ev |-> "geocode", chat |-> c, what |-> "answer", info |-> g]

\* an inbound location: geocode it, then read the record
Location(i, M, c) ==
    /\ Begin(i, M)
    /\ \E g \in GaodeResponses :
         LET v == [New("fetch", LocationUpdate(c)) EXCEPT !.log = <<GeocodeCall(c, g)>>]
         IN  IF ~g.valid THEN Set(i, Throw(v, "InvalidGaodeResp", <<>>))
             ELSE Set(i, ReadModify(v, SetLocation(kv[c], g, MsgLocation)))
    /\ UNCHANGED <<kv, now>>

----------------------------------------------------------------------------
(* fetch: the later steps *)

\* a put that carries the change over to the skip count stored by then
PutOntoStored(i) ==
    /\ inv[i].pc = "put"
    /\ LET c == inv[i].upd.chat
       IN  kv' = [kv EXCEPT ![c] =
                    IF kv[c] # NoRecord /\ inv[i].pre[c] # NoRecord
                    THEN [inv[i].info EXCEPT
                            !.skip = kv[c].skip + (inv[i].info.skip - inv[i].pre[c].skip)]
                    ELSE inv[i].info]
    /\ Set(i, [inv[i] EXCEPT !.pc = "echo"])
    /\ UNCHANGED <<now, started>>

\* env.kv.put(`user:${update.message.chat.id}`, JSON.stringify(info))
Put(i) ==
    /\ inv[i].pc = "put"
    /\ kv' = [kv EXCEPT ![inv[i].upd.chat] = inv[i].info]
    /\ Set(i, [inv[i] EXCEPT !.pc = "echo"])
    /\ UNCHANGED <<now, started>>

\* check_with_user(env, update.message.chat.id)
Echo(i) ==
    /\ inv[i].pc = "echo"
    /\ Set(i, CheckWithUser(inv[i], inv[i].upd.chat))
    /\ UNCHANGED <<kv, now, started>>

\* "/checkin": checkin(env, info)
CheckinNow(i) ==
    /\ inv[i].pc = "checkin"
    /\ \E lresp \in LoginResponses, sresp \in SubmitResponses :
         LET o == Checkin(inv[i].info, lresp, sresp)
         IN  IF o.thrown # "" THEN Set(i, Throw(inv[i], o.thrown, o.events))
             ELSE Set(i, Return(inv[i], o.events))
    /\ UNCHANGED <<kv, now, started>>

----------------------------------------------------------------------------
(* do_scheduled *)

\* a sweep that checks a user in as soon as it has queued them
AdvanceCheckinFirst(v) ==
    IF v.users # <<>> THEN [v EXCEPT !.pc = "checkins"]
    ELSE IF v.keys # <<>> THEN [v EXCEPT !.pc = "enum"]
    ELSE Return(v, <<>>)

\* the sweep goes on to its next key, or to the check-ins, or ends
Advance(v) ==
    IF v.keys # <<>> THEN [v EXCEPT !.pc = "enum"]
    ELSE IF v.users # <<>> THEN [v EXCEPT !.pc = "checkins"]
    ELSE Return(v, <<>>)

\* the clock is read and the keys are listed
BeginSweep(v) ==
    Advance([v EXCEPT !.cur = CurrentMinutes(now), !.keys = ListKeys])

\* the periodic trigger: scheduled()
Cron(i, M) ==
    /\ Begin(i, M)
    /\ Set(i, BeginSweep(New("cron", NoUpdate)))
    /\ UNCHANGED <<kv, now>>

\* "/schedule": do_scheduled from fetch
Schedule(i, M, c, text) ==
    /\ Begin(i, M)
    /\ Intent(text) = "/schedule"
    /\ Set(i, BeginSweep(New("fetch", TextUpdate(c, text))))
    /\ UNCHANGED <<kv, now>>

\* console.error(`User not found for id ${e.id}`)
NotFound(id) == [ev |-> "notfound", chat |-> id, what |-> "User not found", info |-> NoRecord]

\* the missing key passed over and the sweep carried on
UserNotFoundSkipsKey(v, id) ==
    Advance([v EXCEPT !.keys = Tail(@), !.info = NoRecord,
                      !.log = Append(@, NotFound(id))])

\* do_scheduled: the catch of UserNotFound logs and returns
UserNotFoundReturns(v, id) == Return(v, <<NotFound(id)>>)

\* the body of the for loop for the next key, up to its put
SweepEnum(i) ==
    /\ inv[i].pc = "enum"
    /\ LET v  == inv[i]
           id == Head(v.keys)
       IN  IF InfoOfError(id) = "UserNotFound" THEN Set(i, UserNotFoundReturns(v, id))
           ELSE IF InfoOfError(id) # "" THEN Set(i, Throw(v, InfoOfError(id), <<>>))
           ELSE IF ~Matches(kv[id], v.cur)
                THEN Set(i, Advance([v EXCEPT !.keys = Tail(@)]))
           ELSE IF TakesSkip(kv[id])
                THEN Set(i, [v EXCEPT !.pc = "sweep_put", !.info = ConsumeSkip(kv[id])])
           ELSE Set(i, Advance([v EXCEPT !.keys = Tail(@), !.users = Append(@, kv[id])]))
    /\ UNCHANGED <<kv, now, started>>

\* the skip branch: put the decremented record, send "skip for today"
SweepPut(i) ==
    /\ inv[i].pc = "sweep_put"
    /\ kv' = [kv EXCEPT ![Head(inv[i].keys)] = inv[i].info]
    /\ Set(i, [inv[i] EXCEPT !.pc = "sweep_echo",
                             !.log = Append(@, Msg(inv[i].info.chat_id, "skip for today", NoRecord))])
    /\ UNCHANGED <<now, started>>

\* the skip branch: check_with_user(env, info.chat_id), then users.push(info)
SweepEcho(i) ==
    /\ inv[i].pc = "sweep_echo"
    /\ LET v  == inv[i]
           id == v.info.chat_id
       IN  IF InfoOfError(id) = "UserNotFound" THEN Set(i, UserNotFoundReturns(v, id))
           ELSE IF InfoOfError(id) # "" THEN Set(i, Throw(v, InfoOfError(id), <<>>))
           ELSE Set(i, Advance([v EXCEPT !.keys = Tail(@),
                                         !.users = Append(@, v.info),
                                         !.info = NoRecord,
                                         !.log = Append(@, Msg(kv[id].chat_id, "record", kv[id]))]))
    /\ UNCHANGED <<kv, now, started>>

\* the second loop: checkin(env, user) for the next queued user
SweepCheckin(i) ==
    /\ inv[i].pc = "checkins"
    /\ \E lresp \in LoginResponses, sresp \in SubmitResponses :
         LET v == inv[i]
             o == Checkin(Head(v.users), lresp, sresp)
         IN  IF o.thrown # "" THEN Set(i, Throw(v, o.thrown, o.events))
             ELSE Set(i, Advance([v EXCEPT !.users = Tail(@), !.log = @ \o o.events]))
    /\ UNCHANGED <<kv, now, started>>

\* the invocation has returned its response; its slot is free again
Retire(i) ==
    /\ inv[i].pc = "done"
    /\ Set(i, Idle)
    /\ UNCHANGED <<kv, now, started>>

\* time passes
Tick ==
    /\ \E t \in Times : t > now /\ now' = t
    /\ UNCHANGED <<kv, inv, started>>

----------------------------------------------------------------------------
(* The system *)

HourTokens == {"17", "20"}
MinuteTokens == {"00", "30", "15"}

\* the texts the conversations send
Texts ==
    { <<"/start">>, <<"/info">>, <<"/skip">>, <<"/no_skip">>, <<"/checkin">>,
      <<"/delete">>, <<"/in_campus">>, <<"/out_of_campus">>, <<"/schedule">>,
      <<"hello">>,
      <<"/login", " ", "alice", " ", "pw">>,
      <<"/login", " ", "bob", " ", "pw">>,
      <<"/login", " ", "alice">>,
      <<"/checkin", "_at">>,
      <<"/checkin", "_at", " ", "17">> }
    \cup { <<"/checkin", "_at", " ", h, ":", m>> : h \in HourTokens, m \in MinuteTokens }

\* the second conversation sends only these
BasicTexts ==
    { <<"/skip">>, <<"/no_skip">>, <<"/checkin">>, <<"/delete">>, <<"/schedule">>,
      <<"/login", " ", "bob", " ", "pw">>,
      <<"/checkin", "_at", " ", "17", ":", "00">>,
      <<"/checkin", "_at", " ", "17", ":", "30">> }

TextsOf(c) == IF c = 1 THEN Texts ELSE BasicTexts

\* the conversations that send locations
LocationChats == {1}

Init ==
    /\ kv = [c \in Chats |-> NoRecord]
    /\ now = 559
    /\ inv = [i \in Slots |-> Idle]
    /\ started = 0

\* the steps after the first, and the return
Continue(i) ==
    \/ Put(i)
    \/ Echo(i)
    \/ SweepEnum(i)
    \/ SweepPut(i)
    \/ SweepEcho(i)
    \/ SweepCheckin(i)
    \/ Retire(i)

\* invocations run one at a time, each to completion, in slot 1
Next ==
    \/ \E c \in Chats : \E text \in TextsOf(c) :
         \/ Start(1, OneAtATime, c, text)
         \/ Login(1, OneAtATime, c, text)
         \/ CheckinAt(1, OneAtATime, c, text)
         \/ Info(1, OneAtATime, c, text)
         \/ Skip(1, OneAtATime, c, text)
         \/ NoSkip(1, OneAtATime, c, text)
         \/ CheckinCmd(1, OneAtATime, c, text)
         \/ Delete(1, OneAtATime, c, text)
         \/ InCampus(1, OneAtATime, c, text)
         \/ OutOfCampus(1, OneAtATime, c, text)
         \/ Schedule(1, OneAtATime, c, text)
         \/ Unknown(1, OneAtATime, c, text)
    \/ \E c \in LocationChats : Location(1, OneAtATime, c)
    \/ Cron(1, OneAtATime)
    \/ CheckinNow(1)
    \/ Continue(1)
    \/ Tick

Spec == Init /\ [][Next]_vars

----------------------------------------------------------------------------
(* One conversation, with the previous invocation kept for comparison       *)
(* (SpecHist: one invocation at a time) or with two invocations under way   *)
(* at once (SpecConc).  Both start from a store the conversation can have   *)
(* built, and start at most MaxStarted invocations.                         *)

Alice == LoginRecord(1, <<"alice">>, <<"pw">>)

StartRecords == { NoRecord, Alice, AddSkip(Alice), AddSkip(AddSkip(Alice)) }

PairTexts ==
    { <<"/skip">>, <<"/no_skip">>, <<"/delete">>,
      <<"/in_campus">>, <<"/out_of_campus">>,
      <<"/login", " ", "alice", " ", "pw">>,
      <<"/checkin", "_at", " ", "17", ":", "00">> }

InitPair ==
    /\ kv \in {[c \in Chats |-> IF c = 1 THEN r ELSE NoRecord] : r \in StartRecords}
    /\ now \in Times
    /\ inv = [i \in Slots |-> Idle]
    /\ started = 0

Invoke(i, M) ==
    \/ \E text \in PairTexts :
         \/ Login(i, M, 1, text)
         \/ CheckinAt(i, M, 1, text)
         \/ Skip(i, M, 1, text)
         \/ NoSkip(i, M, 1, text)
         \/ Delete(i, M, 1, text)
         \/ InCampus(i, M, 1, text)
         \/ OutOfCampus(i, M, 1, text)
    \/ Location(i, M, 1)
    \/ Cron(i, M)

NextHist ==
    \/ \E i \in Slots : Invoke(i, WithHistory) \/ Continue(i)
    \/ Tick

SpecHist == InitPair /\ [][NextHist]_vars

NextConc ==
    \E i \in Slots : Invoke(i, Interleaved) \/ Continue(i)

SpecConc == InitPair /\ [][NextConc]_vars

----------------------------------------------------------------------------
(* The sweep alone, over every minute of the day and every schedule *)

MinutesPerDay == HoursPerDay * MinutesPerHour

Schedules == { SetSchedule(Alice, h, m) : h \in checkin_hh, m \in checkin_mm }

InitWindow ==
    /\ kv \in {[c \in Chats |-> IF c = 1 THEN r ELSE NoRecord] :
                 r \in Schedules \cup {AddSkip(r0) : r0 \in Schedules}}
    /\ now \in 0 .. MinutesPerDay - 1
    /\ inv = [i \in Slots |-> Idle]
    /\ started = 0

NextWindow ==
    \/ Cron(1, OneAtATime)
    \/ SweepEnum(1)
    \/ SweepPut(1)
    \/ SweepEcho(1)
    \/ SweepCheckin(1)
    \/ Retire(1)

SpecWindow == InitWindow /\ [][NextWindow]_vars

----------------------------------------------------------------------------
(* What the claims speak of *)

\* the invocation is a sweep: the periodic trigger or "/schedule"
IsSweep(v) ==
    \/ v.kind = "cron"
    \/ v.kind = "fetch" /\ v.upd.hasText /\ Intent(v.upd.text) = "/schedule"

\* the invocation handles the given intent for conversation c
IsCommand(v, intent, c) ==
    /\ v.kind = "fetch"
    /\ v.upd.hasText
    /\ v.upd.chat = c
    /\ Intent(v.upd.text) = intent

\* the notification what was sent to c
Sent(v, c, what) ==
    \E k \in DOMAIN v.log :
        v.log[k].ev = "msg" /\ v.log[k].chat = c /\ v.log[k].what = what

\* the record r was sent to c
SentRecord(v, c, r) ==
    \E k \in DOMAIN v.log : v.log[k] = Msg(c, "record", r)

\* a check-in was begun for c: a portal login, or a form submitted
CheckedIn(v, c) ==
    \E k \in DOMAIN v.log :
        v.log[k].ev \in {"login", "submit"} /\ v.log[k].chat = c

\* the time of day T in UTC+8 of a clock reading
LocalMinutes(utc) == (utc + TzOffset * MinutesPerHour) % MinutesPerDay

\* |checkinHour * 60 + checkinMinute - T| <= 10
WithinWindow(info, T) ==
    LET d == info.hh * 60 + info.mm - T
    IN  d <= 10 /\ d >= -10

\* C1: at the end of a sweep, every user whose window matched and whose
\* stored skip count was > 0 has the skip count decremented by 1 and stored,
\* was sent "skip for today" and the current record, and no check-in
\* (login, submission) was made for that user in the run.
C1_SkipInsteadOfCheckin ==
    \A i \in Slots :
        IsSweep(inv[i]) /\ inv[i].pc = "done" =>
            \A c \in Chats :
                (/\ inv[i].pre[c] # NoRecord
                 /\ WithinWindow(inv[i].pre[c], inv[i].cur)
                 /\ inv[i].pre[c].skip > 0)
                => /\ kv[c] = [inv[i].pre[c] EXCEPT !.skip = @ - 1]
                   /\ Sent(inv[i], c, "skip for today")
                   /\ SentRecord(inv[i], c, kv[c])
                   /\ ~CheckedIn(inv[i], c)

\* the records whose check-in form the invocation submitted for c
Submitted(v, c) ==
    {v.log[k].info : k \in {n \in DOMAIN v.log :
                              v.log[n].ev = "submit" /\ v.log[n].chat = c}}

\* C2: of two sweeps at different times of the same day that both lie
\* within 10 minutes of the check-in time of a user with skip count 0, at
\* most one checks the user in.
C2_OneCheckinPerWindow ==
    \A c \in Chats : \A i, j \in Slots :
        (/\ i # j
         /\ IsSweep(inv[i])
         /\ IsSweep(inv[j])
         /\ inv[i].cur # inv[j].cur)
        => ~ \E r \in Submitted(inv[i], c) :
                 /\ r \in Submitted(inv[j], c)
                 /\ r.skip = 0
                 /\ WithinWindow(r, inv[i].cur)
                 /\ WithinWindow(r, inv[j].cur)

\* the sweep has enumerated every key
EnumerationOver(v) ==
    \/ v.pc = "checkins"
    \/ v.pc = "done" /\ v.resp \in {"ok", "Success"}

\* the sweep selected c: it consumed a skip day of c, or queued c for check-in
Selected(v, c) ==
    \/ Sent(v, c, "skip for today")
    \/ \E k \in DOMAIN v.users : v.users[k].chat_id = c
    \/ CheckedIn(v, c)

\* C3: a sweep at time of day T selects a stored record if and only if
\* |checkinHour*60 + checkinMinute - T| <= 10.
C3_SelectedIffWithinTen ==
    \A i \in Slots :
        IsSweep(inv[i]) /\ EnumerationOver(inv[i]) =>
            \A c \in Chats :
                inv[i].pre[c] # NoRecord =>
                    (Selected(inv[i], c) <=> WithinWindow(inv[i].pre[c], LocalMinutes(now)))

\* a sweep selected a record exactly 10 minutes before its check-in time
C3_Witness ==
    /\ IsSweep(inv[1])
    /\ EnumerationOver(inv[1])
    /\ inv[1].pre[1] # NoRecord
    /\ inv[1].pre[1].hh * 60 + inv[1].pre[1].mm - LocalMinutes(now) = 10
    /\ Selected(inv[1], 1)

----------------------------------------------------------------------------
(* "/checkin_at" alone, over every stored schedule and every hour 15..20 *)

AllHourTokens == {"15", "16", "17", "18", "19", "20"}
AllMinuteTokens == {"0", "00", "15", "30"}

ScheduleTexts ==
    { <<"/checkin", "_at", " ", h, ":", m>> : h \in AllHourTokens, m \in AllMinuteTokens }
    \cup { <<"/checkin", "_at", " ", ":", "30">>,
           <<"/checkin", "_at", " ", "x", ":", "30">>,
           <<"/checkin", "_at", " ", "17">> }

InitSchedule ==
    /\ kv \in {[c \in Chats |-> IF c = 1 THEN r ELSE LoginRecord(2, <<"bob">>, <<"pw">>)] :
                 r \in Schedules \cup {SetInCampus(AddSkip(r0), FALSE) : r0 \in Schedules}}
    /\ now = 559
    /\ inv = [i \in Slots |-> Idle]
    /\ started = 0

NextSchedule ==
    \/ \E text \in ScheduleTexts : CheckinAt(1, OneAtATime, 1, text)
    \/ Put(1)
    \/ Echo(1)
    \/ Retire(1)

SpecSchedule == InitSchedule /\ [][NextSchedule]_vars

\* the number a decimal numeral stands for
Numeral(tok) ==
    CASE tok \in {"0", "00"} -> 0
      [] tok = "15" -> 15
      [] tok = "16" -> 16
      [] tok = "17" -> 17
      [] tok = "18" -> 18
      [] tok = "19" -> 19
      [] tok = "20" -> 20
      [] tok = "30" -> 30

Numerals == {"0", "00", "15", "16", "17", "18", "19", "20", "30"}

\* the invocation has returned
Returned(v) == v.pc = "done"

\* C4: for a conversation with a record, "/checkin_at HH:MM" with HH in
\* {16,17,18,19} and MM in {0,30} stores that pair and changes nothing else;
\* any other numeric pair is answered with the wrong-check-in-time
\* notification and the store is as it was.
C4_CheckinAtStoresOrRejects ==
    \A c \in Chats : \A h, m \in Numerals :
        (/\ IsCommand(inv[1], "/checkin_at", c)
         /\ inv[1].upd.text = <<"/checkin", "_at", " ", h, ":", m>>
         /\ Returned(inv[1])
         /\ inv[1].pre[c] # NoRecord)
        => IF Numeral(h) \in {16, 17, 18, 19} /\ Numeral(m) \in {0, 30}
           THEN /\ kv = [inv[1].pre EXCEPT ![c] =
                           [@ EXCEPT !.hh = Numeral(h), !.mm = Numeral(m)]]
                /\ inv[1].resp = "Success"
           ELSE /\ kv = inv[1].pre
                /\ inv[1].log = <<Msg(c, "WrongCheckinTime", NoRecord)>>
                /\ inv[1].resp = "end with error"

\* "/checkin_at 19:00" has been stored over a record with schedule 16:30,
\* a skip day and the campus flag off
C4_Witness ==
    /\ IsCommand(inv[1], "/checkin_at", 1)
    /\ inv[1].upd.text = <<"/checkin", "_at", " ", "19", ":", "00">>
    /\ Returned(inv[1])
    /\ inv[1].pre[1] # NoRecord
    /\ inv[1].pre[1].hh = 16 /\ inv[1].pre[1].mm = 30
    /\ inv[1].pre[1].skip = 1 /\ ~inv[1].pre[1].in_campus
    /\ kv[1].hh = 19 /\ kv[1].mm = 0 /\ kv[1].skip = 1

\* the records the invocation sent to c
Echoed(v, c) ==
    {v.log[k].info : k \in {n \in DOMAIN v.log :
                              v.log[n].ev = "msg" /\ v.log[n].chat = c
                              /\ v.log[n].what = "record"}}

\* the command was handled to its end and acknowledged with "Success"
Succeeded(v, intent, c) ==
    IsCommand(v, intent, c) /\ Returned(v) /\ v.resp = "Success"

\* "/no_skip" in slot j came right after "/skip" in slot i: it found the
\* store as "/skip" left it, and nothing has touched the store since
SkipThenNoSkip(i, j, c) ==
    /\ i # j
    /\ Succeeded(inv[i], "/skip", c)
    /\ Succeeded(inv[j], "/no_skip", c)
    /\ inv[j].pre[c] \in Echoed(inv[i], c)
    /\ kv[c] \in Echoed(inv[j], c)

\* C5: "/skip" followed immediately by "/no_skip" leaves the skip count as
\* it was before the "/skip"; "/no_skip" at skip count 0 leaves it 0.
C5_SkipThenNoSkipRestores ==
    \A c \in Chats : \A i, j \in Slots :
        /\ SkipThenNoSkip(i, j, c) => kv[c].skip = inv[i].pre[c].skip
        /\ (Succeeded(inv[j], "/no_skip", c) /\ inv[j].pre[c].skip = 0)
           => \A r \in Echoed(inv[j], c) : r.skip = 0

\* "/skip" then "/no_skip" on a record that had one skip day
C5_Witness ==
    /\ SkipThenNoSkip(1, 2, 1)
    /\ inv[1].pre[1].skip = 1
    /\ inv[2].pre[1].skip = 2
    /\ kv[1].skip = 1

\* C6: every stored record has skip count >= 0, whatever commands and
\* sweeps have run and however they were interleaved.
C6_SkipNeverNegative ==
    \A c \in Chats : kv[c] # NoRecord => kv[c].skip >= 0

\* "/no_skip" has written back a record whose skip count was 0 while a sweep
\* was under way in the other slot
C6_Witness ==
    /\ IsCommand(inv[1], "/no_skip", 1)
    /\ inv[1].pc = "echo"
    /\ inv[1].pre[1] # NoRecord
    /\ inv[1].pre[1].skip = 0
    /\ IsSweep(inv[2])
    /\ Running(inv[2])
    /\ kv[1] # NoRecord
    /\ kv[1].skip = 0

\* the portal refused the login of the invocation
LoginRefused(v) ==
    \E k \in DOMAIN v.log : v.log[k].ev = "login" /\ v.log[k].what = "LoginError"

\* the portal accepted the login of the invocation
LoginAccepted(v) ==
    \E k \in DOMAIN v.log : v.log[k].ev = "login" /\ v.log[k].what = "ok"

\* the Telegram messages of the invocation
Messages(v) == {k \in DOMAIN v.log : v.log[k].ev = "msg"}

C8_LoginReplacesRecord ==
    \A c \in Chats : \A u \in {"alice", "bob"} :
        (/\ IsCommand(inv[1], "/login", c)
         /\ inv[1].upd.text = <<"/login", " ", u, " ", "pw">>
         /\ LoginAccepted(inv[1])
         /\ inv[1].pre[c] # NoRecord)
        => kv[c] = [ username  |-> <<u>>,
                     password  |-> <<"pw">>,
                     chat_id   |-> c,
                     hh        |-> 17,
                     mm        |-> 30,
                     skip      |-> 0,
                     province  |-> "Beijing",
                     city      |-> "Beijing",
                     area      |-> <<"Beijing", "Haidian">>,
                     address   |-> "BUAA Dayuncun",
                     in_campus |-> TRUE,
                     location  |-> [longitude |-> 116343699, latitude |-> 39977847] ]

\* "/login bob pw" over alice's record with another schedule, a skip day,
\* the campus flag off and another location
C8_Witness ==
    /\ IsCommand(inv[1], "/login", 1)
    /\ inv[1].upd.text = <<"/login", " ", "bob", " ", "pw">>
    /\ LoginAccepted(inv[1])
    /\ Returned(inv[1])
    /\ inv[1].pre[1] # NoRecord
    /\ inv[1].pre[1].username = <<"alice">>
    /\ inv[1].pre[1].mm = 0
    /\ inv[1].pre[1].skip > 0
    /\ ~inv[1].pre[1].in_campus
    /\ inv[1].pre[1].city # "Beijing"
    /\ kv[1].username = <<"bob">>

\* this step is the first step of the given intent for c
Begins(intent, c) ==
    inv[1].pc = "idle" /\ IsCommand(inv'[1], intent, c)

\* C9: with invocations run one at a time, a conversation comes to have a
\* record only by a successful "/login" of its own and loses it only by a
\* "/delete" of its own, and each of the two does so: a record exists if and
\* only if there was a successful "/login" with no "/delete" after it.
C9_RecordIffLoggedIn ==
    [][\A c \in Chats :
         /\ (kv[c] = NoRecord /\ kv'[c] # NoRecord)
            => Begins("/login", c) /\ LoginAccepted(inv'[1])
         /\ (kv[c] # NoRecord /\ kv'[c] = NoRecord)
            => Begins("/delete", c)
         /\ (Begins("/login", c) /\ LoginAccepted(inv'[1])) => kv'[c] # NoRecord
         /\ Begins("/delete", c) => kv'[c] = NoRecord]_vars

\* a location or "/in_campus" from a conversation with no record has been
\* answered with "does not exist" and there is still no record, while the
\* other conversation has one
C9_Witness ==
    /\ inv[1].kind = "fetch"
    /\ inv[1].upd.chat = 1
    /\ \/ inv[1].upd.hasLocation
       \/ IsCommand(inv[1], "/in_campus", 1)
    /\ Returned(inv[1])
    /\ Sent(inv[1], 1, "UserNotFound")
    /\ inv[1].pre[1] = NoRecord
    /\ kv[1] = NoRecord
    /\ kv[2] # NoRecord

\* C10: every stored record has checkinHour in {16,17,18,19} and
\* checkinMinute in {0,30}, and a "/checkin_at" with a value outside them
\* ends without a write to the store.
C10_StoredScheduleInDomain ==
    /\ \A c \in Chats :
         kv[c] # NoRecord => kv[c].hh \in {16, 17, 18, 19} /\ kv[c].mm \in {0, 30}
    /\ \A c \in Chats : \A h, m \in Numerals :
         (/\ IsCommand(inv[1], "/checkin_at", c)
          /\ inv[1].upd.text = <<"/checkin", "_at", " ", h, ":", m>>
          /\ ~(Numeral(h) \in {16, 17, 18, 19} /\ Numeral(m) \in {0, 30}))
         => Returned(inv[1]) /\ kv = inv[1].pre

\* "/checkin_at 20:15" of a conversation with a record has been rejected
C10_Witness ==
    /\ IsCommand(inv[1], "/checkin_at", 1)
    /\ inv[1].upd.text = <<"/checkin", "_at", " ", "20", ":", "15">>
    /\ Returned(inv[1])
    /\ inv[1].pre[1] # NoRecord
    /\ kv = inv[1].pre

----------------------------------------------------------------------------
(* The sweep over a store that holds values the present schema rejects.     *)
(* The KV namespace outlives a deployment: a value written under the        *)
(* earlier UserInfo, which had no in_campus, is still there after the       *)
(* schema has gained the field.                                             *)

\* a record as the earlier UserInfo had it: no in_campus
Legacy(c) ==
    [ username |-> <<"alice">>,
      password |-> <<"pw">>,
      chat_id  |-> c,
      hh       |-> DefaultHh,
      mm       |-> DefaultMm,
      skip     |-> 0,
      province |-> "Beijing",
      city     |-> "Beijing",
      area     |-> <<"Beijing", "Haidian">>,
      address  |-> "BUAA Dayuncun",
      location |-> DefaultLocation ]

\* the record of c as "/login" leaves it: due at 17:30
Due(c) == LoginRecord(c, <<"alice">>, <<"pw">>)

\* what the store may hold for c when the sweep starts
StoredFor(c) ==
    { NoRecord, Due(c), AddSkip(Due(c)), SetSchedule(Due(c), 19, 0), Legacy(c) }

Stores ==
    { k \in [Chats -> UNION {StoredFor(c) : c \in Chats}] :
        \A c \in Chats : k[c] \in StoredFor(c) }

InitDrift ==
    /\ kv \in Stores
    /\ now = 570
    /\ inv = [i \in Slots |-> Idle]
    /\ started = 0

NextDrift ==
    \/ Cron(1, OneAtATime)
    \/ \E c \in Chats : Schedule(1, OneAtATime, c, <<"/schedule">>)
    \/ SweepEnum(1)
    \/ SweepPut(1)
    \/ SweepEcho(1)
    \/ SweepCheckin(1)
    \/ Retire(1)

SpecDrift == InitDrift /\ [][NextDrift]_vars

\* the stored value is there and is not a UserInfo: in_campus is missing
\* or the schedule is not one of the literals
Malformed(value) ==
    /\ value # NoRecord
    /\ \/ "in_campus" \notin DOMAIN value
       \/ value.hh \notin {16, 17, 18, 19}
       \/ value.mm \notin {0, 30}

\* a notification was sent to c
Notified(v, c) ==
    \E k \in DOMAIN v.log : v.log[k].ev = "msg" /\ v.log[k].chat = c

\* the sweep ended in an error: the cron run in an unhandled exception, the
\* "/schedule" request in the failure acknowledgement
SweepFailed(v) ==
    \/ v.kind = "cron" /\ v.resp = "fault"
    \/ v.kind = "fetch" /\ v.resp = "end with error"

\* C11: when a record enumerated by a sweep fails schema validation, the
\* sweep ends in an error at that record: no record after it is examined
\* (it is left as it was and its user is sent nothing) and no check-in is
\* made for any user in that run, the users queued before it included.
C11_MalformedRecordAbortsSweep ==
    \A c \in Chats :
        (IsSweep(inv[1]) /\ inv[1].pc = "done" /\ Malformed(inv[1].pre[c]))
        => /\ SweepFailed(inv[1])
           /\ \A c2 \in Chats : ~CheckedIn(inv[1], c2)
           /\ \A c2 \in Chats :
                c2 > c => kv[c2] = inv[1].pre[c2] /\ ~Notified(inv[1], c2)

\* a cron sweep at 17:30 found conversation 1 due with no skip days, queued
\* it, and then found the record of conversation 2 malformed
C11_Witness ==
    /\ inv[1].kind = "cron"
    /\ inv[1].pc = "done"
    /\ inv[1].pre[1] = Due(1)
    /\ Malformed(inv[1].pre[2])
    /\ inv[1].resp = "fault"
    /\ ~CheckedIn(inv[1], 1)

----------------------------------------------------------------------------
(* A sweep with "/delete" requests arriving while it runs *)

InitRace ==
    /\ kv \in { k \in Stores : \A c \in Chats : k[c] \in {Due(c), AddSkip(Due(c))} }
    /\ now = 570
    /\ inv = [i \in Slots |-> Idle]
    /\ started = 0

NextRace ==
    \E i \in Slots :
        \/ Cron(i, Interleaved)
        \/ Schedule(i, Interleaved, 1, <<"/schedule">>)
        \/ \E c \in Chats : Delete(i, Interleaved, c, <<"/delete">>)
        \/ Echo(i)
        \/ SweepEnum(i)
        \/ SweepPut(i)
        \/ SweepEcho(i)
        \/ SweepCheckin(i)
        \/ Retire(i)

SpecRace == InitRace /\ [][NextRace]_vars

\* the sweep read the listed key of c and found no record
Missed(v, c) ==
    \E k \in DOMAIN v.log : v.log[k].ev = "notfound" /\ v.log[k].chat = c

\* nothing was done in the run after the read that found no record
MissedLast(v, c) ==
    v.log # <<>> /\ v.log[Len(v.log)].ev = "notfound" /\ v.log[Len(v.log)].chat = c

\* C12: when a key listed by a sweep has no record by the time the sweep
\* reads it, the run ends there and then: it returns normally, nothing is
\* done after that read, no record after it is processed and no check-in is
\* made for any user in the run, the users already queued included.
C12_MissingRecordEndsSweep ==
    \A i \in Slots : \A c \in Chats :
        (IsSweep(inv[i]) /\ inv[i].pc = "done" /\ Missed(inv[i], c))
        => /\ inv[i].resp = (IF inv[i].kind = "cron" THEN "ok" ELSE "Success")
           /\ MissedLast(inv[i], c)
           /\ \A c2 \in Chats : ~CheckedIn(inv[i], c2)
           /\ \A c2 \in Chats : c2 > c => ~Notified(inv[i], c2)

\* a sweep listed both conversations and queued conversation 1, which was
\* due; conversation 2 was deleted before the sweep read it
C12_Witness ==
    \E i \in Slots :
        /\ inv[i].kind = "cron"
        /\ inv[i].pc = "done"
        /\ inv[i].pre[1] = Due(1)
        /\ inv[i].pre[2] # NoRecord
        /\ kv[1] = Due(1)
        /\ Missed(inv[i], 2)
        /\ ~CheckedIn(inv[i], 1)

----------------------------------------------------------------------------
\* C13: every webhook request that has been answered was answered with one
\* of the two acknowledgement bodies, "Success" or "end with error"; none
\* ended in an exception that no catch block of fetch handles.
C13_WebhookAlwaysAcknowledges ==
    \A i \in Slots :
        (inv[i].kind = "fetch" /\ inv[i].pc = "done")
        => inv[i].resp \in {"Success", "end with error"}

----------------------------------------------------------------------------
\* the intents that work on the sender's record
NeedsRecord ==
    { "/checkin_at", "/info", "/skip", "/no_skip", "/checkin", "/in_campus",
      "/out_of_campus" }

\* "/checkin_at HH:MM" with HH:MM one of the eight schedules
GoodScheduleTexts ==
    { <<"/checkin", "_at", " ", h, ":", m>> :
        h \in {"16", "17", "18", "19"}, m \in {"0", "00", "30"} }

\* the command of c handled by v could not be carried out: no record for
\* the conversation, a bad schedule time, a malformed command, or the
\* portal refused the login
PreconditionFailed(v, c) ==
    /\ v.kind = "fetch" /\ v.upd.hasText /\ v.upd.chat = c
    /\ \/ Intent(v.upd.text) \in NeedsRecord /\ v.pre[c] = NoRecord
       \/ Intent(v.upd.text) = "unknown"
       \/ Intent(v.upd.text) = "/login" /\ Len(Split(v.upd.text, " ")) # 3
       \/ Intent(v.upd.text) = "/checkin_at" /\ v.upd.text \notin GoodScheduleTexts
       \/ Intent(v.upd.text) \in {"/login", "/checkin"} /\ LoginRefused(v)

\* the notifications that describe a failure
FailureNotices ==
    { "UserNotFound", "WrongCheckinTime", "WrongCommandError", "LoginError" }

\* C14: a command whose precondition failed has sent exactly one
\* notification, to the conversation it came from, and that notification
\* describes the failure; "/info" of a conversation with no record included.
C14_OneFailureNotification ==
    \A c \in Chats :
        (PreconditionFailed(inv[1], c) /\ Returned(inv[1]))
        => /\ Cardinality(Messages(inv[1])) = 1
           /\ \A k \in Messages(inv[1]) :
                inv[1].log[k].chat = c /\ inv[1].log[k].what \in FailureNotices

----------------------------------------------------------------------------
\* the text begins with "/checkin_at"
BeginsCheckinAt(text) == StartsWith(text, <<"/checkin", "_at">>)

\* the request went into checkin(env, info) for its sender
ImmediateCheckin(v) ==
    /\ v.kind = "fetch" /\ v.upd.hasText
    /\ ~IsSweep(v)
    /\ Intent(v.upd.text) # "/login"
    /\ \/ v.pc = "checkin"
       \/ CheckedIn(v, v.upd.chat)

\* C15: a text that begins with "/checkin_at", with an argument or without,
\* never leads to an immediate check-in; the texts that do are those that
\* begin with "/checkin" and not with "/checkin_at".
C15_CheckinAtNeverChecksIn ==
    /\ inv[1].kind = "fetch" /\ inv[1].upd.hasText /\ BeginsCheckinAt(inv[1].upd.text)
       => ~ImmediateCheckin(inv[1])
    /\ ImmediateCheckin(inv[1])
       => /\ StartsWith(inv[1].upd.text, <<"/checkin">>)
          /\ ~BeginsCheckinAt(inv[1].upd.text)

----------------------------------------------------------------------------
\* the sweep queued c: it found a record for c whose window matched
Queued(v, c) ==
    /\ IsSweep(v)
    /\ v.pre[c] # NoRecord
    /\ WithinWindow(v.pre[c], v.cur)

\* the portal calls of the run come in the order of the keys
InEnumerationOrder(v) ==
    \A k, l \in DOMAIN v.log :
        (k < l /\ v.log[k].ev \in {"login", "submit"} /\ v.log[l].ev \in {"login", "submit"})
        => v.log[k].chat <= v.log[l].chat

\* C16: when a sweep has ended, every user it queued has had a check-in
\* attempt, whether or not the check-in of a user queued earlier failed, and
\* the attempts were made in enumeration order.
C16_EveryQueuedUserIsAttempted ==
    (IsSweep(inv[1]) /\ inv[1].pc = "done")
    => /\ \A c \in Chats : Queued(inv[1], c) => CheckedIn(inv[1], c)
       /\ InEnumerationOrder(inv[1])

----------------------------------------------------------------------------
\* C17: "/delete" leaves its conversation without a record, whether it had
\* one or not, and touches no other conversation; its reply step fails with
\* UserNotFound: the only notification is "does not exist", sent to the
\* sender, and the request is acknowledged with "end with error".
C17_DeleteRemovesAndReplyFails ==
    \A c \in Chats :
        IsCommand(inv[1], "/delete", c)
        => /\ kv = [inv[1].pre EXCEPT ![c] = NoRecord]
           /\ Returned(inv[1])
              => /\ inv[1].log = <<Msg(c, "UserNotFound", NoRecord)>>
                 /\ inv[1].resp = "end with error"

\* "/delete" of a conversation that had a record has been answered, the
\* record of the other conversation still being there
C17_Witness ==
    /\ IsCommand(inv[1], "/delete", 1)
    /\ Returned(inv[1])
    /\ inv[1].pre[1] # NoRecord
    /\ inv[1].pre[2] # NoRecord
    /\ kv[1] = NoRecord
    /\ Sent(inv[1], 1, "UserNotFound")

----------------------------------------------------------------------------
\* the invocation handles a location sent by c
IsLocation(v, c) == v.kind = "fetch" /\ v.upd.hasLocation /\ v.upd.chat = c

\* the geocoder's answer to the invocation was g
Geocoded(v, g) ==
    \E k \in DOMAIN v.log : v.log[k].ev = "geocode" /\ v.log[k].info = g

\* C18: after a location from a conversation with a record has been handled,
\* the stored city is the city the geocoder returned when that is a plain
\* string and the returned province when it is not, and the stored area is
\* that city, a space, and the district.
C18_CityFallsBackToProvince ==
    \A c \in Chats : \A g \in GaodeResponses :
        (/\ IsLocation(inv[1], c)
         /\ Geocoded(inv[1], g) /\ g.valid
         /\ inv[1].pre[c] # NoRecord
         /\ Returned(inv[1]))
        => /\ g.city.isString => kv[c].city = g.city.val
           /\ ~g.city.isString => kv[c].city = g.province
           /\ kv[c].area = <<kv[c].city, g.district>>
           /\ SentRecord(inv[1], c, kv[c])

\* a location was geocoded with the city returned as a list, and the record
\* now has the province "Shanghai" as its city
C18_Witness ==
    /\ IsLocation(inv[1], 1)
    /\ Returned(inv[1])
    /\ inv[1].pre[1] # NoRecord
    /\ inv[1].pre[1].city = "Beijing"
    /\ \E g \in GaodeResponses : Geocoded(inv[1], g) /\ g.valid /\ ~g.city.isString
    /\ kv[1].city = "Shanghai"
    /\ kv[1].area = <<"Shanghai", "Pudong">>

\* the fields an inbound location leaves alone
KeptByLocation == { "username", "password", "chat_id", "hh", "mm", "skip", "in_campus" }

\* records r and q agree on the fields of F
SameOn(r, q, F) ==
    /\ DOMAIN r = DOMAIN q
    /\ \A f \in F : r[f] = q[f]

\* C19: a location from c changes nothing in the store but the city,
\* province, area, address and location of c's record; when c has no record
\* or the geocoder's answer fails validation, the store is left as it was.
C19_LocationChangesOnlyPlace ==
    \A c \in Chats :
        IsLocation(inv[1], c)
        => /\ \A c2 \in Chats \ {c} : kv[c2] = inv[1].pre[c2]
           /\ inv[1].pre[c] = NoRecord => kv[c] = NoRecord
           /\ (\E g \in GaodeResponses : Geocoded(inv[1], g) /\ ~g.valid)
              => kv = inv[1].pre
           /\ inv[1].pre[c] # NoRecord
              => kv[c] # NoRecord /\ SameOn(kv[c], inv[1].pre[c], KeptByLocation)

\* a location has moved a record that had a schedule of its own, a skip day
\* and the campus flag off, and these are as they were
C19_Witness ==
    /\ IsLocation(inv[1], 1)
    /\ Returned(inv[1])
    /\ inv[1].pre[1] # NoRecord
    /\ inv[1].pre[1].skip = 1 /\ ~inv[1].pre[1].in_campus /\ inv[1].pre[1].mm = 0
    /\ kv[1].province = "Hebei"
    /\ kv[1].location = MsgLocation
    /\ kv[1].skip = 1 /\ ~kv[1].in_campus /\ kv[1].mm = 0

----------------------------------------------------------------------------
\* the portal's answers to a check-in form that do not read as {e, m}
Unreadable == { "not_json", "bad_shape" }

\* the forms submitted for c in the run
Submissions(v, c) ==
    {k \in DOMAIN v.log : v.log[k].ev = "submit" /\ v.log[k].chat = c}

\* C20: when the portal's answer to a check-in form is not JSON, or is JSON
\* of another shape than {e, m}, the user is sent a check-in failure
\* notification after that submission, and the form is not submitted again
\* in that run.
C20_UnreadableAnswerIsReported ==
    \A c \in Chats :
        (/\ inv[1].pc = "done"
         /\ \E k \in Submissions(inv[1], c) : inv[1].log[k].what \in Unreadable)
        => /\ Cardinality(Submissions(inv[1], c)) = 1
           /\ \A k \in Submissions(inv[1], c) :
                \E l \in Messages(inv[1]) :
                    /\ l > k
                    /\ inv[1].log[l].chat = c
                    /\ inv[1].log[l].what = "checkin failed: resp is not JSON"

----------------------------------------------------------------------------
\* log entry k of the run belongs to a check-in: a portal login or a form
PortalCall(v, k) == v.log[k].ev \in {"login", "submit"}

\* log entry k of the run belongs to the enumeration: a skip notification,
\* the record sent after it, or the note of a missing record
EnumerationStep(v, k) ==
    \/ v.log[k].ev = "msg" /\ v.log[k].what \in {"skip for today", "record"}
    \/ v.log[k].ev = "notfound"

\* the sweep is still enumerating
Enumerating(v) == v.pc \in {"enum", "sweep_put", "sweep_echo"}

\* C21: a sweep makes no portal login and submits no form while it is
\* still enumerating; every skip notification of the run comes before the
\* first check-in, and the check-ins are made in enumeration order.
C21_TwoPhaseSweep ==
    \A i \in Slots :
        IsSweep(inv[i])
        => /\ Enumerating(inv[i]) => \A k \in DOMAIN inv[i].log : ~PortalCall(inv[i], k)
           /\ \A k, l \in DOMAIN inv[i].log :
                (PortalCall(inv[i], k) /\ EnumerationStep(inv[i], l)) => l < k
           /\ InEnumerationOrder(inv[i])

\* a sweep queued conversation 1, consumed a skip day of conversation 2,
\* and then checked both in, 1 before 2
C21_Witness ==
    \E i \in Slots :
        /\ IsSweep(inv[i])
        /\ inv[i].pc = "done"
        /\ Sent(inv[i], 2, "skip for today")
        /\ inv[i].pre[1] # NoRecord
        /\ inv[i].pre[1].skip = 0
        /\ CheckedIn(inv[i], 1)
        /\ CheckedIn(inv[i], 2)

----------------------------------------------------------------------------
\* two "/skip" commands of c, in slots i and j, both read the record before
\* either wrote it back, and both have been answered
BothReadFirst(i, j, c) ==
    /\ i # j
    /\ Succeeded(inv[i], "/skip", c)
    /\ Succeeded(inv[j], "/skip", c)
    /\ inv[i].pre[c] # NoRecord
    /\ inv[i].pre[c] = inv[j].pre[c]

\* C22: two "/skip" commands for the same conversation can interleave so
\* that both read the record before either writes it back, and after such
\* an interleaving the stored skip count is 1 higher than before, not 2.
C22_ConcurrentSkipsLoseOne ==
    \A c \in Chats : \A i, j \in Slots :
        BothReadFirst(i, j, c) => kv[c].skip = inv[i].pre[c].skip + 1

\* two "/skip" commands read a record with no skip days, both were
\* answered, and the record has one skip day
C22_Witness ==
    /\ BothReadFirst(1, 2, 1)
    /\ inv[1].pre[1].skip = 0
    /\ kv[1] # NoRecord
    /\ kv[1].skip = 1

----------------------------------------------------------------------------
\* this step is the put of a successful "/login" of c
LoginStores(c) ==
    \E i \in Slots :
        /\ inv[i].pc = "idle"
        /\ IsCommand(inv'[i], "/login", c)
        /\ LoginAccepted(inv'[i])

\* C23: under every interleaving, a conversation that has no record (its
\* record having been deleted) comes to have one again only by the put of a
\* successful "/login" of that conversation: no other command and no sweep
\* that read the record before the delete writes it back.
C23_DeletedStaysDeleted ==
    [][\A c \in Chats :
         (kv[c] = NoRecord /\ kv'[c] # NoRecord) => LoginStores(c)]_vars

----------------------------------------------------------------------------
\* the sweep in slot i ran to its end at a time within the window of the
\* record it found for c
SweptInWindow(i, c) ==
    /\ IsSweep(inv[i])
    /\ inv[i].pc = "done"
    /\ inv[i].pre[c] # NoRecord
    /\ WithinWindow(inv[i].pre[c], inv[i].cur)

\* C24: when two sweeps have run at different times of the same day that
\* both lie within 10 minutes of a user's check-in time, the user's skip
\* count is at most 1 lower than it was before the first of them.
C24_OneSkipPerWindow ==
    \A c \in Chats : \A i, j \in Slots :
        (/\ i # j
         /\ SweptInWindow(i, c)
         /\ SweptInWindow(j, c)
         /\ inv[i].cur < inv[j].cur
         /\ kv[c] # NoRecord)
        => kv[c].skip >= inv[i].pre[c].skip - 1

----------------------------------------------------------------------------
\* in this step the sweep in slot i submits check-in forms for c: these
\* entries of its log
SubmitsNow(i, c) ==
    {k \in Submissions(inv'[i], c) : k \notin DOMAIN inv[i].log}

\* C25: whenever a sweep submits a check-in form for a conversation, that
\* conversation has a record in the store at that moment, and the record
\* the form is filled from is the stored one: a "/delete" that completed
\* after the sweep enumerated the user is honoured.
C25_SweepSubmitsStoredRecord ==
    [][\A i \in Slots : \A c \in Chats :
         (IsSweep(inv'[i]) /\ inv[i].pc = "checkins")
         => \A k \in SubmitsNow(i, c) :
                kv[c] # NoRecord /\ inv'[i].log[k].info = kv[c]]_vars

----------------------------------------------------------------------------
\* the sweep found no malformed record and has ended: it went through every
\* key and through its check-ins, to their end or to the first that threw
SweepRan(v) ==
    /\ IsSweep(v)
    /\ v.pc = "done"
    /\ \A c \in Chats : ~Malformed(v.pre[c])

\* the sweep at time of day T takes a skip day of the stored value
SkipsAt(value, T) ==
    /\ value # NoRecord
    /\ WithinWindow(value, T)
    /\ value.skip > 0

\* C26: a sweep run alone leaves the store as it found it, but for the skip
\* count of each user whose window matches and whose skip count is > 0,
\* which is lower by exactly 1: nothing else of those records changes, the
\* other records do not change, and no record is created or deleted.
C26_SweepOnlyConsumesSkips ==
    /\ IsSweep(inv[1])
       => \A c \in Chats :
            \/ kv[c] = inv[1].pre[c]
            \/ /\ SkipsAt(inv[1].pre[c], LocalMinutes(now))
               /\ kv[c] = [inv[1].pre[c] EXCEPT !.skip = @ - 1]
    /\ SweepRan(inv[1])
       => \A c \in Chats :
            kv[c] = IF SkipsAt(inv[1].pre[c], LocalMinutes(now))
                    THEN [inv[1].pre[c] EXCEPT !.skip = @ - 1]
                    ELSE inv[1].pre[c]

\* a sweep has ended over a store where conversation 1 had a skip day and
\* conversation 2 was not due: 1 has lost the skip day, 2 is as it was
C26_Witness ==
    /\ SweepRan(inv[1])
    /\ inv[1].pre[1] = AddSkip(Due(1))
    /\ inv[1].pre[2] = SetSchedule(Due(2), 19, 0)
    /\ kv[1] = Due(1)
    /\ kv[2] = inv[1].pre[2]

----------------------------------------------------------------------------
\* entry k of the log is a form submitted with the session of the login
\* made just before it, for the same user, with the credentials of the
\* record the form is filled from, and that login was accepted
OwnSession(v, k) ==
    /\ k > 1
    /\ v.log[k - 1].ev = "login"
    /\ v.log[k - 1].what = "ok"
    /\ v.log[k - 1].chat = v.log[k].chat
    /\ v.log[k - 1].info.username = v.log[k].info.username
    /\ v.log[k - 1].info.password = v.log[k].info.password

----------------------------------------------------------------------------
\* the login answer is well-formed, its error code is 0 and the transport
\* returned a session token
GoodLoginAnswer(r) == r.wellformed /\ r.e = 0 /\ r.cookie

\* C28: login returns a session token only when the answer is well-formed,
\* its status code does not indicate a failure and a session token came
\* with it; on a malformed answer, on any status code that indicates a
\* failure, and on a missing token, it fails with the authentication error
\* and no form is submitted with a session of that login.
C28_LoginReturnsTokenOnlyOnSuccess ==
    \A i \in Slots : \A k \in DOMAIN inv[i].log :
        inv[i].log[k].ev = "login"
        => IF GoodLoginAnswer(inv[i].log[k].resp)
           THEN inv[i].log[k].what = "ok"
           ELSE /\ inv[i].log[k].what = "LoginError"
                /\ k + 1 \in DOMAIN inv[i].log => inv[i].log[k + 1].ev # "submit"

====
